---- MODULE Spec2Model ----
(***************************************************************************)
(* CineTrack: the client-side list store (js/storage.js) over              *)
(* localStorage, the debounced search input and the catalog loads of the   *)
(* main page (js/main.js, js/api.js), the toggle buttons of the cards and  *)
(* of the details page (js/ui.js, js/details.js), and two tabs sharing     *)
(* the store.                                                              *)
(***************************************************************************)
EXTENDS Integers, Sequences, FiniteSets, TLC

VARIABLES
    localStorage,       \* key name -> stored text (the persistence medium)
    medium,             \* "ok" | "quota" | "unavailable": how the medium answers writes
    clock,              \* wall clock read by new Date()
    call,               \* the last store call: operation, arguments, the medium it met
    ret,                \* what that call returned ("true", "false") or raised ("TypeError")
    nops,               \* store calls made so far
    budget,             \* store calls a behaviour may make
    now,                \* timer clock of the page, in ms
    inputValue,         \* searchInput.value
    searchTimeout,      \* main.js searchTimeout: 0 for null, else a timer id
    timers,             \* pending setTimeout callbacks: [id, due, query]
    nextTimerId,        \* the id the next setTimeout returns
    currentSearchQuery, \* main.js currentSearchQuery
    currentPage,        \* main.js currentPage
    currentContentType, \* main.js currentContentType: "all", "movie" or "tv"
    currentGenre,       \* main.js currentGenre: null or a genre id
    inflight,           \* catalog fetches awaiting their response: [n, kind, query, mediaType]
    nreq,               \* catalog fetches issued so far
    currentResults,     \* main.js currentResults: the fetch they came from, and whether any
    inputLog,           \* input events so far: [at, timer]
    searchLog,          \* handleSearch executions so far: [at, query, timer]
    response,           \* how the last catalog fetch ended: "none", "results", "empty", "failed"
    emptyState,         \* the #emptyState element is displayed
    notifications,      \* the types of the notifications shown so far
    cardButtons,        \* index page: catalog item -> its card's buttons are active
    detailButtons,      \* details page: the item shown and which of its buttons are active
    clicked,            \* the last button clicked, and how it looked before the click
    tabs                \* two tabs sharing the medium: each tab's store call in progress

storeVars == <<localStorage, medium, clock, call, ret, nops, budget>>
searchVars == <<now, inputValue, searchTimeout, timers, nextTimerId,
                currentSearchQuery, currentPage, currentContentType, currentGenre,
                inflight, nreq, currentResults, inputLog, searchLog>>
\* what the pages display
shownVars == <<response, emptyState, notifications, cardButtons, detailButtons, clicked>>
vars == <<localStorage, medium, clock, call, ret, nops, budget, now, inputValue,
          searchTimeout, timers, nextTimerId, currentSearchQuery, currentPage,
          currentContentType, currentGenre, inflight, nreq, currentResults, inputLog, searchLog, response, emptyState,
          notifications, cardButtons, detailButtons, clicked, tabs>>

----------------------------------------------------------------------------
(* Bounds of the model *)

MaxOps == 3         \* store calls per behaviour, from a medium without entries
MaxMediumOps == 2   \* store calls per behaviour, from a medium with foreign content
MaxInputs == 4      \* input events on the search box per behaviour
MaxTime == 650      \* the timer clock stops here (ms)
MaxClicks == 2      \* store calls the toggle buttons make on a medium that may fail
MaxTabOps == 2      \* store calls of the two tabs together
MaxLoads == 2       \* input events and catalog loads after which the main page takes no more

----------------------------------------------------------------------------
(* JavaScript values. Strings stand for themselves; numbers (ids, ratings) *)
(* are written as their decimal text.                                      *)

UNDEFINED == "undefined"
NULL == "null"
NaN == "NaN"

\* ToBoolean, as used by `||` and `?:`
Truthy(v) == v \notin {UNDEFINED, NULL, NaN, "", "0"}

\* a || b
Or(a, b) == IF Truthy(a) THEN a ELSE b

\* a === b on primitives: NaN is not equal to itself
StrictEq(a, b) == a = b /\ a # NaN

\* obj[f] on a plain object: a missing property reads as undefined
Get(obj, f) == IF f \in DOMAIN obj THEN obj[f] ELSE UNDEFINED

\* new Date().toISOString(): the clock reading as text, one text per instant
toISOString(t) == ToString(t)

----------------------------------------------------------------------------
(* JSON text. A text is represented by what it parses to; text that does   *)
(* not parse is "garbage".                                                 *)

\* JSON.stringify of one property value: NaN has no JSON form and becomes null
JSONvalue(v) == IF v = NaN THEN NULL ELSE v

\* JSON.stringify of an object: undefined-valued properties are left out
JSONobject(obj) ==
    [f \in {g \in DOMAIN obj : obj[g] # UNDEFINED} |-> JSONvalue(obj[f])]

\* JSON.stringify(items) for an array of objects
JSONstringify(items) ==
    [kind |-> "array", items |-> [n \in 1..Len(items) |-> JSONobject(items[n])]]

\* JSON.parse(text): the parsed value, or a SyntaxError
JSONparse(text) ==
    IF text.kind \in {"array", "null", "number", "object"}
    THEN [t |-> text.kind, items |-> text.items]
    ELSE [t |-> "SyntaxError", items |-> <<>>]

ABSENT == [kind |-> "absent", items |-> <<>>]
EmptyArray == [t |-> "array", items |-> <<>>]

----------------------------------------------------------------------------
(* storage.js *)

KEYS == [WATCHLIST |-> "cinetrack_watchlist",
         FAVORITES |-> "cinetrack_favorites",
         WATCHED   |-> "cinetrack_watched"]

KeyNames == {KEYS.WATCHLIST, KEYS.FAVORITES, KEYS.WATCHED}

\* the sentinel write-then-remove probe; it leaves the medium as it was
isStorageAvailable == medium # "unavailable"

\* localStorage.setItem(key, text) for a list key raises when the quota is used up
setItemThrows == medium # "ok"

getItems_noCatch(key) ==
    IF ~isStorageAvailable THEN EmptyArray
    ELSE LET items == localStorage[key] IN
         IF items.kind \notin {"absent", "empty"}
         THEN JSONparse(items)
         ELSE EmptyArray

\* mutant: a missing entry is parsed like any other: JSON.parse(null) is null
getItems_parsesMissing(key) ==
    IF ~isStorageAvailable THEN EmptyArray
    ELSE LET items == localStorage[key] IN
         IF items.kind = "absent" THEN [t |-> "null", items |-> <<>>]
         ELSE IF items.kind # "empty"
              THEN LET parsed == JSONparse(items) IN
                   IF parsed.t = "SyntaxError" THEN EmptyArray ELSE parsed
              ELSE EmptyArray

getItems(key) ==
    IF ~isStorageAvailable THEN EmptyArray
    ELSE LET items == localStorage[key] IN
         IF items.kind \notin {"absent", "empty"}
         THEN LET parsed == JSONparse(items) IN
              IF parsed.t = "SyntaxError" THEN EmptyArray ELSE parsed
         ELSE EmptyArray

\* mutant: the error of a rejected write is swallowed, the call reports success
saveItems_swallows(key, items) ==
    IF ~isStorageAvailable
    THEN ret' = "false" /\ UNCHANGED localStorage
    ELSE IF setItemThrows
         THEN ret' = "true" /\ UNCHANGED localStorage
         ELSE /\ localStorage' = [localStorage EXCEPT ![key] = JSONstringify(items)]
              /\ ret' = "true"

\* sets localStorage' and ret'
saveItems(key, items) ==
    IF ~isStorageAvailable
    THEN ret' = "false" /\ UNCHANGED localStorage
    ELSE IF setItemThrows
         THEN ret' = "false" /\ UNCHANGED localStorage
         ELSE /\ localStorage' = [localStorage EXCEPT ![key] = JSONstringify(items)]
              /\ ret' = "true"

\* mutant: the id alone decides
SameKey_byId(i, id, mediaType) ==
    StrictEq(Get(i, "id"), id)

\* i.id === x.id && i.media_type === x.media_type
SameKey(i, id, mediaType) ==
    StrictEq(Get(i, "id"), id) /\ StrictEq(Get(i, "media_type"), mediaType)

\* items.some(...) / items.find(...) for the identity key
some(items, id, mediaType) ==
    \E n \in 1..Len(items) : SameKey(items[n], id, mediaType)

\* mutant: the filter compares the id alone
filter_byId(items, id, mediaType) ==
    SelectSeq(items, LAMBDA i : ~StrictEq(Get(i, "id"), id))

\* mutant: the filter's condition is not negated
filter_keepsMatch(items, id, mediaType) ==
    SelectSeq(items, LAMBDA i : SameKey(i, id, mediaType))

\* items.filter(item => !(...))
filter(items, id, mediaType) ==
    SelectSeq(items, LAMBDA i : ~SameKey(i, id, mediaType))

getWatchlist == getItems(KEYS.WATCHLIST)
getFavorites == getItems(KEYS.FAVORITES)
getWatched == getItems(KEYS.WATCHED)

----------------------------------------------------------------------------
(* Catalog items handed to the store by the pages *)

MovieDisplay ==
    [title |-> "A", name |-> UNDEFINED, poster_path |-> "/a.jpg", vote_average |-> "8.4"]

\* a record named by `name`, without poster, whose card shows the rating
\* "N/A": main.js:344 parses that text to NaN
UnratedDisplay ==
    [title |-> UNDEFINED, name |-> "N", poster_path |-> NULL, vote_average |-> NaN]

Item(id, mediaType, d) ==
    [id |-> id, media_type |-> mediaType, title |-> d.title, name |-> d.name,
     poster_path |-> d.poster_path, vote_average |-> d.vote_average]

\* one key with two sets of display values, the same id as movie and as TV
\* show, and a second id
Items ==
    { Item("550", "movie", MovieDisplay),
      Item("550", "movie", UnratedDisplay),
      Item("550", "tv", UnratedDisplay),
      Item("1399", "movie", MovieDisplay) }

\* the identity keys of those items
IdentityKeys == { <<i.id, i.media_type>> : i \in Items }

\* the record addToWatchlist / addToFavorites push
ListRecord(item) ==
    [id |-> item.id,
     title |-> Or(item.title, item.name),
     poster_path |-> item.poster_path,
     media_type |-> item.media_type,
     vote_average |-> item.vote_average,
     added_date |-> toISOString(clock)]

\* the record addToWatched pushes
WatchedRecord(item) ==
    [id |-> item.id,
     title |-> Or(item.title, item.name),
     media_type |-> item.media_type,
     watched_date |-> toISOString(clock)]

\* the record of a call: its arguments, the medium it met, and whether the
\* list it loaded held the key
Called(op, list, id, mediaType, item) ==
    /\ nops < budget
    /\ nops' = nops + 1
    /\ call' = [op |-> op, id |-> id, media_type |-> mediaType, item |-> item,
                medium |-> medium,
                found |-> list.t = "array" /\ some(list.items, id, mediaType)]

NoItem == [id |-> UNDEFINED]

\* mutant: no check for a record already in the list
add_noCheck(key, list, item, record) ==
    IF list.t # "array"
    THEN ret' = "TypeError" /\ UNCHANGED localStorage
    ELSE saveItems(key, Append(list.items, record))

\* mutant: a record already in the list is replaced by the new one
add_replaces(key, list, item, record) ==
    IF list.t # "array"
    THEN ret' = "TypeError" /\ UNCHANGED localStorage
    ELSE saveItems(key, Append(filter(list.items, item.id, item.media_type), record))

\* mutant: every list is saved under the key of the favorites
add_wrongKey(key, list, item, record) ==
    IF list.t # "array"
    THEN ret' = "TypeError" /\ UNCHANGED localStorage
    ELSE IF some(list.items, item.id, item.media_type)
         THEN ret' = "false" /\ UNCHANGED localStorage
         ELSE saveItems(KEYS.FAVORITES, Append(list.items, record))

\* mutant: the new record is put in front (unshift for push)
add_prepends(key, list, item, record) ==
    IF list.t # "array"
    THEN ret' = "TypeError" /\ UNCHANGED localStorage
    ELSE IF some(list.items, item.id, item.media_type)
         THEN ret' = "false" /\ UNCHANGED localStorage
         ELSE saveItems(key, <<record>> \o list.items)

\* add: calling .find on a value that is no array raises a TypeError
add(key, list, item, record) ==
    IF list.t # "array"
    THEN ret' = "TypeError" /\ UNCHANGED localStorage
    ELSE IF some(list.items, item.id, item.media_type)
         THEN ret' = "false" /\ UNCHANGED localStorage
         ELSE saveItems(key, Append(list.items, record))

\* mutant: the list is cut at the first record of the key (splice without count)
remove_cutsTail(key, list, id, mediaType) ==
    IF list.t # "array"
    THEN ret' = "TypeError" /\ UNCHANGED localStorage
    ELSE LET hits == { n \in 1..Len(list.items) : SameKey(list.items[n], id, mediaType) }
         IN  IF hits = {} THEN saveItems(key, list.items)
             ELSE saveItems(key, SubSeq(list.items, 1,
                                 (CHOOSE n \in hits : \A h \in hits : n <= h) - 1))

\* mutant: nothing is written when no record was removed
remove_skipsUnchanged(key, list, id, mediaType) ==
    IF list.t # "array"
    THEN ret' = "TypeError" /\ UNCHANGED localStorage
    ELSE IF ~some(list.items, id, mediaType)
         THEN ret' = "true" /\ UNCHANGED localStorage
         ELSE saveItems(key, filter(list.items, id, mediaType))

\* mutant: the result tells whether a record was removed
remove_reportsFound(key, list, id, mediaType) ==
    IF list.t # "array"
    THEN ret' = "TypeError" /\ UNCHANGED localStorage
    ELSE IF ~some(list.items, id, mediaType)
         THEN ret' = "false" /\ UNCHANGED localStorage
         ELSE saveItems(key, filter(list.items, id, mediaType))

\* remove: calling .filter on a value that is no array raises a TypeError
remove(key, list, id, mediaType) ==
    IF list.t # "array"
    THEN ret' = "TypeError" /\ UNCHANGED localStorage
    ELSE saveItems(key, filter(list.items, id, mediaType))

addToWatchlist(item) ==
    /\ Called("addToWatchlist", getWatchlist, item.id, item.media_type, item)
    /\ add(KEYS.WATCHLIST, getWatchlist, item, ListRecord(item))
    /\ UNCHANGED <<medium, clock, budget>>
    /\ UNCHANGED <<searchVars, shownVars, tabs>>

removeFromWatchlist(id, mediaType) ==
    /\ Called("removeFromWatchlist", getWatchlist, id, mediaType, NoItem)
    /\ remove(KEYS.WATCHLIST, getWatchlist, id, mediaType)
    /\ UNCHANGED <<medium, clock, budget>>
    /\ UNCHANGED <<searchVars, shownVars, tabs>>

\* the value isInWatchlist returns, "TypeError" when .some is called on no array
isInWatchlist(id, mediaType) ==
    LET watchlist == getWatchlist IN
    IF watchlist.t # "array" THEN "TypeError"
    ELSE IF some(watchlist.items, id, mediaType) THEN "true" ELSE "false"

addToFavorites(item) ==
    /\ Called("addToFavorites", getFavorites, item.id, item.media_type, item)
    /\ add(KEYS.FAVORITES, getFavorites, item, ListRecord(item))
    /\ UNCHANGED <<medium, clock, budget>>
    /\ UNCHANGED <<searchVars, shownVars, tabs>>

removeFromFavorites(id, mediaType) ==
    /\ Called("removeFromFavorites", getFavorites, id, mediaType, NoItem)
    /\ remove(KEYS.FAVORITES, getFavorites, id, mediaType)
    /\ UNCHANGED <<medium, clock, budget>>
    /\ UNCHANGED <<searchVars, shownVars, tabs>>

isInFavorites(id, mediaType) ==
    LET favorites == getFavorites IN
    IF favorites.t # "array" THEN "TypeError"
    ELSE IF some(favorites.items, id, mediaType) THEN "true" ELSE "false"

addToWatched(item) ==
    /\ Called("addToWatched", getWatched, item.id, item.media_type, item)
    /\ add(KEYS.WATCHED, getWatched, item, WatchedRecord(item))
    /\ UNCHANGED <<medium, clock, budget>>
    /\ UNCHANGED <<searchVars, shownVars, tabs>>

isWatched(id, mediaType) ==
    LET watched == getWatched IN
    IF watched.t # "array" THEN "TypeError"
    ELSE IF some(watched.items, id, mediaType) THEN "true" ELSE "false"

----------------------------------------------------------------------------
(* The environment of the store *)

\* the browser's storage is switched off, runs out of quota, or recovers
MediumChanges(m) ==
    /\ m # medium
    /\ medium' = m
    /\ UNCHANGED <<localStorage, clock, call, ret, nops, budget>>
    /\ UNCHANGED <<searchVars, shownVars, tabs>>

\* the readings of the wall clock: two instants tell a record inserted
\* later from one inserted earlier
Instants == {0, 1}

\* the wall clock advances
ClockTick ==
    /\ clock + 1 \in Instants
    /\ clock' = clock + 1
    /\ UNCHANGED <<localStorage, medium, call, ret, nops, budget>>
    /\ UNCHANGED <<searchVars, shownVars, tabs>>

----------------------------------------------------------------------------
(* ui.js, main.js: the cards of the index page *)

\* a trending result carries its media_type
Trending ==
    [id |-> "550", media_type |-> "movie", title |-> "A", name |-> UNDEFINED,
     poster_path |-> "/a.jpg", vote_average |-> "8.4"]

\* a result of /discover/movie has no media_type field; this one has no votes
Discovered ==
    [id |-> "1399", media_type |-> UNDEFINED, title |-> "B", name |-> UNDEFINED,
     poster_path |-> "/b.jpg", vote_average |-> "0"]

\* the results a catalog fetch returns when it returns any
Catalog == {Trending, Discovered}

CatalogIds == { item.id : item \in Catalog }

\* item.vote_average ? item.vote_average.toFixed(1) : 'N/A'
ratingText(v) == IF Truthy(v) THEN v ELSE "N/A"

\* parseFloat of a rating text
parseFloat(text) == IF text = "N/A" THEN NaN ELSE text

\* createCard(item): the data attributes and texts of the card
Card(item) ==
    [id |-> item.id,
     mediaType |-> Or(item.media_type, "movie"),
     title |-> Or(item.title, item.name),
     rating |-> ratingText(item.vote_average)]

\* createCard(item) raises when a membership predicate does
createCardThrows(item) ==
    "TypeError" \in { isInWatchlist(item.id, item.media_type),
                      isInFavorites(item.id, item.media_type),
                      isWatched(item.id, item.media_type) }

\* createCard(item): the buttons of the card, active for a member
createCard(item) ==
    [watchlist |-> isInWatchlist(item.id, item.media_type) = "true",
     favorite |-> isInFavorites(item.id, item.media_type) = "true"]

\* renderCards(items, container) for the results of a fetch
renderCards(items) ==
    [id \in CatalogIds |->
        IF \E item \in items : item.id = id
        THEN createCard(CHOOSE item \in items : item.id = id)
        ELSE cardButtons[id]]

\* handleCardAction: the item read back from the card; the image has no
\* data-poster attribute, so getAttribute gives null
CardItem(card) ==
    [id |-> card.id, media_type |-> card.mediaType, title |-> card.title,
     name |-> UNDEFINED, poster_path |-> NULL,
     vote_average |-> parseFloat(card.rating)]

NoButtons == [id \in CatalogIds |-> [watchlist |-> FALSE, favorite |-> FALSE]]

----------------------------------------------------------------------------
(* main.js: the search box. Texts are sequences of characters.            *)

\* what the user can have in the search box after an input event
Queries == { <<"a">>, <<"a", "b">>, <<" ">> }

\* the steps by which the timer clock advances (ms)
Delays == {50, 300}

\* the delay handleSearchInput passes to setTimeout
DebounceWait == 300

RECURSIVE trimStart(_)
trimStart(q) ==
    IF q # <<>> /\ Head(q) = " " THEN trimStart(Tail(q)) ELSE q

RECURSIVE trimEnd(_)
trimEnd(q) ==
    IF q # <<>> /\ q[Len(q)] = " " THEN trimEnd(SubSeq(q, 1, Len(q) - 1)) ELSE q

\* String.prototype.trim
trim(q) == trimEnd(trimStart(q))

NoResults == [n |-> 0, any |-> FALSE]

\* mutant: the delay is ignored, the callback is due at once
setTimeout_noDelay(pending, query, delay) ==
    pending \cup {[id |-> nextTimerId, due |-> now, query |-> query]}

\* setTimeout(callback, delay): the callback is pending under a fresh id
setTimeout(pending, query, delay) ==
    pending \cup {[id |-> nextTimerId, due |-> now + delay, query |-> query]}

\* clearTimeout(id): no effect when no pending timer has the id
clearTimeout(pending, id) == { t \in pending : t.id # id }

\* handleSearch(query) up to its first await: the query is stored and a
\* catalog fetch is issued; the empty query loads the trending content
handleSearch(query) ==
    /\ currentSearchQuery' = trim(query)
    /\ currentPage' = IF trim(query) = <<>> THEN 1 ELSE currentPage
    /\ emptyState' = FALSE
    /\ nreq' = nreq + 1
    /\ inflight' = inflight \cup
         {[n |-> nreq + 1,
           kind |-> IF trim(query) = <<>> THEN "trending" ELSE "search",
           query |-> trim(query),
           mediaType |-> IF currentContentType # "all" THEN currentContentType
                         ELSE IF trim(query) = <<>> THEN "all" ELSE "multi"]}

\* mutant: the pending timeout is not cleared before the new one is set
handleSearchInput_noClear(query) ==
    /\ Len(inputLog) < MaxInputs
    /\ now + DebounceWait <= MaxTime
    /\ query # inputValue
    /\ inputValue' = query
    /\ timers' = setTimeout(timers, query, DebounceWait)
    /\ searchTimeout' = nextTimerId
    /\ nextTimerId' = nextTimerId + 1
    /\ inputLog' = Append(inputLog, [at |-> now, timer |-> nextTimerId])
    /\ UNCHANGED <<currentSearchQuery, currentPage, currentContentType, currentGenre,
                   inflight, nreq, currentResults, searchLog, now>>
    /\ UNCHANGED <<storeVars, shownVars, tabs>>

\* mutant: the callback searches for the text of the first input event
handleSearchInput_staleQuery(query) ==
    /\ Len(inputLog) < MaxInputs
    /\ now + DebounceWait <= MaxTime
    /\ query # inputValue
    /\ inputValue' = query
    /\ timers' = setTimeout(IF searchTimeout # 0
                            THEN clearTimeout(timers, searchTimeout)
                            ELSE timers,
                            IF inputLog = <<>> THEN query ELSE inputValue, DebounceWait)
    /\ searchTimeout' = nextTimerId
    /\ nextTimerId' = nextTimerId + 1
    /\ inputLog' = Append(inputLog, [at |-> now, timer |-> nextTimerId])
    /\ UNCHANGED <<currentSearchQuery, currentPage, currentContentType, currentGenre,
                   inflight, nreq, currentResults, searchLog, now>>
    /\ UNCHANGED <<storeVars, shownVars, tabs>>

\* an input event on the search box: the user changed its text to `query`
handleSearchInput(query) ==
    /\ Len(inputLog) < MaxInputs
    /\ now + DebounceWait <= MaxTime
    /\ query # inputValue
    /\ inputValue' = query
    /\ timers' = setTimeout(IF searchTimeout # 0
                            THEN clearTimeout(timers, searchTimeout)
                            ELSE timers,
                            query, DebounceWait)
    /\ searchTimeout' = nextTimerId
    /\ nextTimerId' = nextTimerId + 1
    /\ inputLog' = Append(inputLog, [at |-> now, timer |-> nextTimerId])
    /\ UNCHANGED <<currentSearchQuery, currentPage, currentContentType, currentGenre,
                   inflight, nreq, currentResults, searchLog, now>>
    /\ UNCHANGED <<storeVars, shownVars, tabs>>

\* the callback of a due timer runs: () => handleSearch(query)
TimerFires(t) ==
    /\ t \in timers
    /\ t.due <= now
    /\ timers' = timers \ {t}
    /\ handleSearch(t.query)
    /\ searchLog' = Append(searchLog, [at |-> now, query |-> t.query, timer |-> t.id])
    /\ UNCHANGED <<inputValue, searchTimeout, nextTimerId, currentResults, inputLog, now,
                   currentContentType, currentGenre>>
    /\ UNCHANGED <<response, notifications, cardButtons, detailButtons, clicked>>
    /\ UNCHANGED <<storeVars, tabs>>

\* what a catalog fetch can come to: results, no results, or a failure
Responses == {"results", "empty", "failed"}

\* api.js: fetchTrending / searchContent catch a failed fetch and return []
fetched(resp) == IF resp = "results" THEN Catalog ELSE {}

\* the response of a catalog fetch arrives: handleSearch / loadTrendingContent
\* resume after their await, render the results or show the empty state;
\* their catch block runs when the rendering raises
FetchReturns(r, resp) ==
    /\ r \in inflight
    /\ inflight' = inflight \ {r}
    /\ response' = resp
    /\ currentResults' = [n |-> r.n, any |-> fetched(resp) # {}]
    /\ IF fetched(resp) = {}
       THEN /\ emptyState' = TRUE
            /\ UNCHANGED <<cardButtons, notifications>>
       ELSE IF \E item \in fetched(resp) : createCardThrows(item)
            THEN /\ emptyState' = TRUE
                 /\ notifications' = Append(notifications, "error")
                 /\ UNCHANGED cardButtons
            ELSE /\ cardButtons' = renderCards(fetched(resp))
                 /\ UNCHANGED <<emptyState, notifications>>
    /\ UNCHANGED <<now, inputValue, searchTimeout, timers, nextTimerId,
                   currentSearchQuery, currentPage, currentContentType, currentGenre,
                   nreq, inputLog, searchLog>>
    /\ UNCHANGED <<detailButtons, clicked>>
    /\ UNCHANGED <<storeVars, tabs>>

\* time passes; a due callback runs before the clock moves past it
Tick(d) ==
    /\ now + d <= MaxTime
    /\ \A t \in timers : now + d <= t.due
    /\ now' = now + d
    /\ UNCHANGED <<inputValue, searchTimeout, timers, nextTimerId, currentSearchQuery,
                   currentPage, currentContentType, currentGenre, inflight, nreq,
                   currentResults, inputLog, searchLog>>
    /\ UNCHANGED <<storeVars, shownVars, tabs>>

\* the content types of two of the filter buttons
ContentTypes == {"all", "movie"}

\* the genre chips: "All" (null) and one genre
GenreIds == {NULL, "28"}

\* loadTrendingContent up to its await, for content type `type`
loadTrendingContent(type) ==
    /\ emptyState' = FALSE
    /\ nreq' = nreq + 1
    /\ inflight' = inflight \cup
         {[n |-> nreq + 1, kind |-> "trending", query |-> <<>>, mediaType |-> type]}

\* loadContentByGenre(genreId) up to its await
loadContentByGenre(genreId) ==
    /\ emptyState' = FALSE
    /\ nreq' = nreq + 1
    /\ inflight' = inflight \cup
         {[n |-> nreq + 1, kind |-> "genre", query |-> <<>>,
           mediaType |-> IF currentContentType = "all" THEN "movie"
                         ELSE currentContentType]}

\* a click on the clear button of the search box
clearSearch ==
    /\ Len(inputLog) + nreq < MaxLoads
    /\ inputValue' = <<>>
    /\ currentSearchQuery' = <<>>
    /\ loadTrendingContent(currentContentType)
    /\ UNCHANGED <<now, searchTimeout, timers, nextTimerId, currentPage,
                   currentContentType, currentGenre, currentResults, inputLog, searchLog>>
    /\ UNCHANGED <<response, notifications, cardButtons, detailButtons, clicked>>
    /\ UNCHANGED <<storeVars, tabs>>

\* a click on a genre chip
handleGenreClick(genreId) ==
    /\ Len(inputLog) + nreq < MaxLoads
    /\ currentGenre' = genreId
    /\ currentPage' = 1
    /\ inputValue' = <<>>
    /\ currentSearchQuery' = <<>>
    /\ IF genreId = NULL
       THEN loadTrendingContent(currentContentType)
       ELSE loadContentByGenre(genreId)
    /\ UNCHANGED <<now, searchTimeout, timers, nextTimerId, currentContentType,
                   currentResults, inputLog, searchLog>>
    /\ UNCHANGED <<response, notifications, cardButtons, detailButtons, clicked>>
    /\ UNCHANGED <<storeVars, tabs>>

\* a click on a content-type filter button
handleContentTypeFilter(type) ==
    /\ Len(inputLog) + nreq < MaxLoads
    /\ currentContentType' = type
    /\ currentGenre' = NULL
    /\ currentPage' = 1
    /\ inputValue' = <<>>
    /\ currentSearchQuery' = <<>>
    /\ loadTrendingContent(type)
    /\ UNCHANGED <<now, searchTimeout, timers, nextTimerId, currentResults,
                   inputLog, searchLog>>
    /\ UNCHANGED <<response, notifications, cardButtons, detailButtons, clicked>>
    /\ UNCHANGED <<storeVars, tabs>>

\* mutant: the pending timeout is left to run
submitSearch_noClear ==
    /\ Len(inputLog) + nreq < MaxLoads
    /\ handleSearch(inputValue)
    /\ searchLog' = Append(searchLog, [at |-> now, query |-> inputValue, timer |-> 0])
    /\ UNCHANGED <<now, inputValue, searchTimeout, timers, nextTimerId, currentContentType,
                   currentGenre, currentResults, inputLog>>
    /\ UNCHANGED <<response, notifications, cardButtons, detailButtons, clicked>>
    /\ UNCHANGED <<storeVars, tabs>>

\* the Enter key in the search box, or a click on the search button: the
\* pending timeout is cleared and handleSearch runs on the text of the box;
\* the execution is logged with timer 0
submitSearch ==
    /\ Len(inputLog) + nreq < MaxLoads
    /\ timers' = IF searchTimeout # 0 THEN clearTimeout(timers, searchTimeout) ELSE timers
    /\ handleSearch(inputValue)
    /\ searchLog' = Append(searchLog, [at |-> now, query |-> inputValue, timer |-> 0])
    /\ UNCHANGED <<now, inputValue, searchTimeout, nextTimerId, currentContentType,
                   currentGenre, currentResults, inputLog>>
    /\ UNCHANGED <<response, notifications, cardButtons, detailButtons, clicked>>
    /\ UNCHANGED <<storeVars, tabs>>

----------------------------------------------------------------------------
(* main.js, details.js: the toggle buttons. Each handler asks the          *)
(* membership predicate, calls remove or add, and then updates the button  *)
(* and shows a notification.                                               *)

NoDetails == [id |-> UNDEFINED, media_type |-> UNDEFINED,
              watchlist |-> FALSE, favorite |-> FALSE, watched |-> FALSE]

NoClick == [page |-> "none", list |-> "none", id |-> UNDEFINED, was |-> FALSE]

\* the catalog record with the given id
CatalogItem(id) == CHOOSE item \in Catalog : item.id = id

handleWatchlistToggle(item, c) ==
    LET inWatchlist == isInWatchlist(item.id, item.media_type) IN
    /\ inWatchlist # "TypeError"
    /\ IF inWatchlist = "true"
       THEN /\ Called("removeFromWatchlist", getWatchlist, item.id, item.media_type, NoItem)
            /\ remove(KEYS.WATCHLIST, getWatchlist, item.id, item.media_type)
            /\ cardButtons' = [cardButtons EXCEPT ![c].watchlist = FALSE]
       ELSE /\ Called("addToWatchlist", getWatchlist, item.id, item.media_type, item)
            /\ add(KEYS.WATCHLIST, getWatchlist, item, ListRecord(item))
            /\ cardButtons' = [cardButtons EXCEPT ![c].watchlist = TRUE]
    /\ notifications' = Append(notifications, "success")
    /\ clicked' = [page |-> "index", list |-> KEYS.WATCHLIST, id |-> c,
                   was |-> cardButtons[c].watchlist]
    /\ UNCHANGED <<medium, clock, budget, response, emptyState, detailButtons>>
    /\ UNCHANGED <<searchVars, tabs>>

handleFavoriteToggle(item, c) ==
    LET inFavorites == isInFavorites(item.id, item.media_type) IN
    /\ inFavorites # "TypeError"
    /\ IF inFavorites = "true"
       THEN /\ Called("removeFromFavorites", getFavorites, item.id, item.media_type, NoItem)
            /\ remove(KEYS.FAVORITES, getFavorites, item.id, item.media_type)
            /\ cardButtons' = [cardButtons EXCEPT ![c].favorite = FALSE]
       ELSE /\ Called("addToFavorites", getFavorites, item.id, item.media_type, item)
            /\ add(KEYS.FAVORITES, getFavorites, item, ListRecord(item))
            /\ cardButtons' = [cardButtons EXCEPT ![c].favorite = TRUE]
    /\ notifications' = Append(notifications, "success")
    /\ clicked' = [page |-> "index", list |-> KEYS.FAVORITES, id |-> c,
                   was |-> cardButtons[c].favorite]
    /\ UNCHANGED <<medium, clock, budget, response, emptyState, detailButtons>>
    /\ UNCHANGED <<searchVars, tabs>>

\* a click on the watchlist or the favorite button of the card of catalog
\* item c
handleCardAction(c, action) ==
    LET item == CardItem(Card(CatalogItem(c))) IN
    CASE action = "watchlist" -> handleWatchlistToggle(item, c)
      [] action = "favorite" -> handleFavoriteToggle(item, c)

\* a re-rendering of the grid from the catalog, as every content load does
renderGrid ==
    /\ \A item \in Catalog : ~createCardThrows(item)
    /\ cardButtons' = renderCards(Catalog)
    /\ UNCHANGED <<response, emptyState, notifications, detailButtons, clicked>>
    /\ UNCHANGED <<storeVars, searchVars, tabs>>

\* details.js getUrlParams: type defaults to 'movie'
getUrlParams(id, type) == [id |-> id, type |-> Or(type, "movie")]

\* the details page is loaded for a card: the buttons show the membership
setupActionButtons(data, mediaType) ==
    /\ "TypeError" \notin { isInWatchlist(data.id, mediaType),
                            isInFavorites(data.id, mediaType),
                            isWatched(data.id, mediaType) }
    /\ detailButtons' = [id |-> data.id, media_type |-> mediaType,
                         watchlist |-> isInWatchlist(data.id, mediaType) = "true",
                         favorite |-> isInFavorites(data.id, mediaType) = "true",
                         watched |-> isWatched(data.id, mediaType) = "true"]
    /\ UNCHANGED <<response, emptyState, notifications, cardButtons, clicked>>
    /\ UNCHANGED <<storeVars, searchVars, tabs>>

\* navigateToDetails(id, mediaType) from the card of catalog item c
navigateToDetails(c) ==
    LET params == getUrlParams(Card(CatalogItem(c)).id, Card(CatalogItem(c)).mediaType)
    IN  setupActionButtons(CatalogItem(params.id), params.type)

\* the item toggleWatchlist / toggleFavorite build
DetailItem(data, mediaType) ==
    [id |-> data.id, title |-> Or(data.title, data.name), name |-> UNDEFINED,
     poster_path |-> data.poster_path, media_type |-> mediaType,
     vote_average |-> data.vote_average]

\* the item toggleWatched builds
WatchedItem(data, mediaType) ==
    [id |-> data.id, title |-> Or(data.title, data.name), name |-> UNDEFINED,
     media_type |-> mediaType]

toggleWatchlist(data, mediaType) ==
    LET item == DetailItem(data, mediaType)
        inWatchlist == isInWatchlist(item.id, mediaType)
    IN  /\ inWatchlist # "TypeError"
        /\ IF inWatchlist = "true"
           THEN /\ Called("removeFromWatchlist", getWatchlist, item.id, mediaType, NoItem)
                /\ remove(KEYS.WATCHLIST, getWatchlist, item.id, mediaType)
                /\ detailButtons' = [detailButtons EXCEPT !.watchlist = FALSE]
           ELSE /\ Called("addToWatchlist", getWatchlist, item.id, mediaType, item)
                /\ add(KEYS.WATCHLIST, getWatchlist, item, ListRecord(item))
                /\ detailButtons' = [detailButtons EXCEPT !.watchlist = TRUE]
        /\ notifications' = Append(notifications, "success")
        /\ clicked' = [page |-> "details", list |-> KEYS.WATCHLIST, id |-> data.id,
                       was |-> detailButtons.watchlist]
        /\ UNCHANGED <<medium, clock, budget, response, emptyState, cardButtons>>
        /\ UNCHANGED <<searchVars, tabs>>

toggleFavorite(data, mediaType) ==
    LET item == DetailItem(data, mediaType)
        inFavorites == isInFavorites(item.id, mediaType)
    IN  /\ inFavorites # "TypeError"
        /\ IF inFavorites = "true"
           THEN /\ Called("removeFromFavorites", getFavorites, item.id, mediaType, NoItem)
                /\ remove(KEYS.FAVORITES, getFavorites, item.id, mediaType)
                /\ detailButtons' = [detailButtons EXCEPT !.favorite = FALSE]
           ELSE /\ Called("addToFavorites", getFavorites, item.id, mediaType, item)
                /\ add(KEYS.FAVORITES, getFavorites, item, ListRecord(item))
                /\ detailButtons' = [detailButtons EXCEPT !.favorite = TRUE]
        /\ notifications' = Append(notifications, "success")
        /\ clicked' = [page |-> "details", list |-> KEYS.FAVORITES, id |-> data.id,
                       was |-> detailButtons.favorite]
        /\ UNCHANGED <<medium, clock, budget, response, emptyState, cardButtons>>
        /\ UNCHANGED <<searchVars, tabs>>

\* mutant: the watched button toggles like the other two
toggleWatched_unmarks(data, mediaType) ==
    LET item == WatchedItem(data, mediaType)
        watched == isWatched(item.id, mediaType)
    IN  /\ watched # "TypeError"
        /\ IF watched = "true"
           THEN /\ Called("removeFromWatched", getWatched, item.id, mediaType, NoItem)
                /\ remove(KEYS.WATCHED, getWatched, item.id, mediaType)
                /\ detailButtons' = [detailButtons EXCEPT !.watched = FALSE]
           ELSE /\ Called("addToWatched", getWatched, item.id, mediaType, item)
                /\ add(KEYS.WATCHED, getWatched, item, WatchedRecord(item))
                /\ detailButtons' = [detailButtons EXCEPT !.watched = TRUE]
        /\ notifications' = Append(notifications, "success")
        /\ clicked' = [page |-> "details", list |-> KEYS.WATCHED, id |-> data.id,
                       was |-> detailButtons.watched]
        /\ UNCHANGED <<medium, clock, budget, response, emptyState, cardButtons>>
        /\ UNCHANGED <<searchVars, tabs>>

\* a click on the watched button: nothing happens for a watched item
toggleWatched(data, mediaType) ==
    LET item == WatchedItem(data, mediaType)
        watched == isWatched(item.id, mediaType)
    IN  /\ watched # "TypeError"
        /\ clicked' = [page |-> "details", list |-> KEYS.WATCHED, id |-> data.id,
                       was |-> detailButtons.watched]
        /\ IF watched # "true"
           THEN /\ Called("addToWatched", getWatched, item.id, mediaType, item)
                /\ add(KEYS.WATCHED, getWatched, item, WatchedRecord(item))
                /\ detailButtons' = [detailButtons EXCEPT !.watched = TRUE]
                /\ notifications' = Append(notifications, "success")
           ELSE UNCHANGED <<localStorage, call, ret, nops, detailButtons, notifications>>
        /\ UNCHANGED <<medium, clock, budget, response, emptyState, cardButtons>>
        /\ UNCHANGED <<searchVars, tabs>>

\* a click on one of the three buttons of the details page
detailsClick(list) ==
    LET data == CatalogItem(detailButtons.id)
        mediaType == detailButtons.media_type
    IN  /\ detailButtons # NoDetails
        /\ CASE list = KEYS.WATCHLIST -> toggleWatchlist(data, mediaType)
             [] list = KEYS.FAVORITES -> toggleFavorite(data, mediaType)
             [] list = KEYS.WATCHED -> toggleWatched(data, mediaType)

----------------------------------------------------------------------------
(* Two tabs of the application share the medium. A store call of a tab is  *)
(* a load (localStorage.getItem in getItems) followed by a save            *)
(* (localStorage.setItem in saveItems); the other tab may run in between.  *)

Tabs == {1, 2}

\* the store operations that write: name, kind, and the key of their list
StoreOps ==
    { [name |-> "addToWatchlist", kind |-> "add", key |-> KEYS.WATCHLIST],
      [name |-> "removeFromWatchlist", kind |-> "remove", key |-> KEYS.WATCHLIST],
      [name |-> "addToFavorites", kind |-> "add", key |-> KEYS.FAVORITES],
      [name |-> "removeFromFavorites", kind |-> "remove", key |-> KEYS.FAVORITES],
      [name |-> "addToWatched", kind |-> "add", key |-> KEYS.WATCHED] }

IdleTab == [pc |-> "idle", op |-> "none", item |-> NoItem, list |-> EmptyArray,
            ret |-> "none"]

\* the store calls that have loaded and not yet saved
Loaded == { t \in Tabs : tabs[t].pc = "loaded" }

\* tab t enters a store call and loads the list: const watchlist = getWatchlist()
TabLoads(t, op, item) ==
    /\ tabs[t].pc # "loaded"
    /\ nops + Cardinality(Loaded) < budget
    /\ tabs' = [tabs EXCEPT ![t] = [pc |-> "loaded", op |-> op, item |-> item,
                                    list |-> getItems(op.key), ret |-> "none"]]
    /\ UNCHANGED <<storeVars, searchVars, shownVars>>

\* mutant: the list is loaded again right before the save
TabSaves_reloads(t) ==
    LET c == tabs[t]
        record == IF c.op.key = KEYS.WATCHED THEN WatchedRecord(c.item)
                  ELSE ListRecord(c.item)
    IN  /\ c.pc = "loaded"
        /\ Called(c.op.name, getItems(c.op.key), c.item.id, c.item.media_type, c.item)
        /\ IF c.op.kind = "add"
           THEN add(c.op.key, getItems(c.op.key), c.item, record)
           ELSE remove(c.op.key, getItems(c.op.key), c.item.id, c.item.media_type)
        /\ tabs' = [tabs EXCEPT ![t].pc = "done", ![t].ret = ret']
        /\ UNCHANGED <<medium, clock, budget>>
        /\ UNCHANGED <<searchVars, shownVars>>

\* mutant: the new record is appended to what the medium holds at the save
TabSaves_merges(t) ==
    LET c == tabs[t]
        record == IF c.op.key = KEYS.WATCHED THEN WatchedRecord(c.item)
                  ELSE ListRecord(c.item)
    IN  /\ c.pc = "loaded"
        /\ Called(c.op.name, c.list, c.item.id, c.item.media_type, c.item)
        /\ IF c.op.kind = "add"
           THEN IF some(c.list.items, c.item.id, c.item.media_type)
                THEN ret' = "false" /\ UNCHANGED localStorage
                ELSE saveItems(c.op.key, Append(getItems(c.op.key).items, record))
           ELSE remove(c.op.key, c.list, c.item.id, c.item.media_type)
        /\ tabs' = [tabs EXCEPT ![t].pc = "done", ![t].ret = ret']
        /\ UNCHANGED <<medium, clock, budget>>
        /\ UNCHANGED <<searchVars, shownVars>>

\* tab t finishes its call on the list it loaded: the find / filter, and
\* saveItems
TabSaves(t) ==
    LET c == tabs[t]
        record == IF c.op.key = KEYS.WATCHED THEN WatchedRecord(c.item)
                  ELSE ListRecord(c.item)
    IN  /\ c.pc = "loaded"
        /\ Called(c.op.name, c.list, c.item.id, c.item.media_type, c.item)
        /\ IF c.op.kind = "add"
           THEN add(c.op.key, c.list, c.item, record)
           ELSE remove(c.op.key, c.list, c.item.id, c.item.media_type)
        /\ tabs' = [tabs EXCEPT ![t].pc = "done", ![t].ret = ret']
        /\ UNCHANGED <<medium, clock, budget>>
        /\ UNCHANGED <<searchVars, shownVars>>

----------------------------------------------------------------------------
(* Specification of the store: the pages call it on a medium that starts   *)
(* without entries.                                                        *)

InitSearch ==
    /\ now = 0
    /\ inputValue = <<>>
    /\ searchTimeout = 0
    /\ timers = {}
    /\ nextTimerId = 1
    /\ currentSearchQuery = <<>>
    /\ currentPage = 1
    /\ currentContentType = "all"
    /\ currentGenre = NULL
    /\ inflight = {}
    /\ nreq = 0
    /\ currentResults = NoResults
    /\ inputLog = <<>>
    /\ searchLog = <<>>

NoCall == [op |-> "none", id |-> UNDEFINED, media_type |-> UNDEFINED, item |-> NoItem,
           medium |-> "ok", found |-> FALSE]

InitStore ==
    /\ medium = "ok"
    /\ clock = 0
    /\ call = NoCall
    /\ ret = "none"
    /\ nops = 0

\* the pages as rendered over lists without records, and no second tab
InitShown ==
    /\ response = "none"
    /\ emptyState = FALSE
    /\ notifications = <<>>
    /\ cardButtons = NoButtons
    /\ detailButtons = NoDetails
    /\ clicked = NoClick
    /\ tabs = [t \in Tabs |-> IdleTab]

\* no list has been written yet
InitCalls(n) ==
    /\ localStorage = [k \in KeyNames |-> ABSENT]
    /\ budget = n
    /\ InitStore
    /\ InitSearch
    /\ InitShown

Init == InitCalls(MaxOps)

NextStore ==
    \/ \E item \in Items : addToWatchlist(item)
    \/ \E k \in IdentityKeys : removeFromWatchlist(k[1], k[2])
    \/ \E item \in Items : addToFavorites(item)
    \/ \E k \in IdentityKeys : removeFromFavorites(k[1], k[2])
    \/ \E item \in Items : addToWatched(item)
    \/ \E m \in {"ok", "quota", "unavailable"} : MediumChanges(m)
    \/ ClockTick

Next == NextStore

Spec == Init /\ [][Next]_vars

----------------------------------------------------------------------------
(* Specification of the store on a medium that already holds text under    *)
(* one of the keys: written by an earlier session, by another script of    *)
(* the origin, or damaged.                                                 *)

Text(kind) == [kind |-> kind, items |-> <<>>]

\* no entry, "", "[]", text that is no JSON, and the JSON texts null, 5, {}
MediumTexts ==
    { ABSENT, Text("empty"), Text("array"), Text("garbage"),
      Text("null"), Text("number"), Text("object") }

InitMedium ==
    /\ \E key \in KeyNames, text \in MediumTexts :
            localStorage = [k \in KeyNames |-> IF k = key THEN text ELSE ABSENT]
    /\ budget = MaxMediumOps
    /\ InitStore
    /\ InitSearch
    /\ InitShown

SpecMedium == InitMedium /\ [][NextStore]_vars

\* one list starts with text that JSON.parse rejects
InitUnparseable ==
    /\ \E key \in KeyNames :
            localStorage = [k \in KeyNames |-> IF k = key THEN Text("garbage") ELSE ABSENT]
    /\ budget = MaxMediumOps
    /\ InitStore
    /\ InitSearch
    /\ InitShown

SpecUnparseable == InitUnparseable /\ [][NextStore]_vars

----------------------------------------------------------------------------
(* Specification of the search box: input events, the debounce timer and   *)
(* the catalog responses.                                                  *)

\* the store is not called
InitStoreIdle ==
    /\ localStorage = [k \in KeyNames |-> ABSENT]
    /\ budget = 0
    /\ InitStore

InitSearchBox == InitStoreIdle /\ InitSearch /\ InitShown

NextSearch ==
    \/ \E query \in Queries : handleSearchInput(query)
    \/ \E t \in timers : TimerFires(t)
    \/ \E r \in inflight, resp \in Responses : FetchReturns(r, resp)
    \/ \E d \in Delays : Tick(d)

SpecSearch == InitSearchBox /\ [][NextSearch]_vars

\* the browser runs a due callback, and time does not stop
FairSearch ==
    /\ SpecSearch
    /\ WF_vars(\E t \in timers : TimerFires(t))
    /\ WF_vars(\E d \in Delays : Tick(d))

----------------------------------------------------------------------------
(* Specification of the main page: the search box with its Enter key,      *)
(* search and clear buttons, the genre chips and the content-type filter.  *)

\* the steps of the timer clock on this page (ms)
PageDelays == {150, 300}

NextPage ==
    \/ \E query \in Queries : Len(inputLog) + nreq < MaxLoads /\ handleSearchInput(query)
    \/ \E t \in timers : TimerFires(t)
    \/ \E r \in inflight, resp \in {"results", "empty"} : FetchReturns(r, resp)
    \/ \E d \in PageDelays : Tick(d)
    \/ submitSearch
    \/ clearSearch
    \/ \E genreId \in GenreIds : handleGenreClick(genreId)
    \/ \E type \in ContentTypes : handleContentTypeFilter(type)

SpecPage == InitSearchBox /\ [][NextPage]_vars

----------------------------------------------------------------------------
(* Specification of the pages: clicks on the toggle buttons of the cards   *)
(* and of the details page, re-renderings, and a medium that may fail.     *)

NextPages ==
    \/ \E c \in CatalogIds, action \in {"watchlist", "favorite"} : handleCardAction(c, action)
    \/ renderGrid
    \/ \E c \in CatalogIds : navigateToDetails(c)
    \/ \E list \in KeyNames : detailsClick(list)

NextToggle ==
    \/ NextPages
    \/ \E m \in {"ok", "quota", "unavailable"} : MediumChanges(m)

SpecToggle == InitCalls(MaxClicks) /\ [][NextToggle]_vars

\* the same pages on a medium that accepts every write
SpecToggleOk == Init /\ [][NextPages]_vars

----------------------------------------------------------------------------
(* Specification of two tabs calling the store. *)

NextTabs ==
    \/ \E t \in Tabs, op \in StoreOps, item \in Items : TabLoads(t, op, item)
    \/ \E t \in Tabs : TabSaves(t)

SpecTabs == InitCalls(MaxTabOps) /\ [][NextTabs]_vars

----------------------------------------------------------------------------
(* Vocabulary of the properties *)

AddOp(key) ==
    CASE key = KEYS.WATCHLIST -> "addToWatchlist"
      [] key = KEYS.FAVORITES -> "addToFavorites"
      [] key = KEYS.WATCHED -> "addToWatched"

RemoveOp(key) ==
    CASE key = KEYS.WATCHLIST -> "removeFromWatchlist"
      [] key = KEYS.FAVORITES -> "removeFromFavorites"
      [] key = KEYS.WATCHED -> "none-exists"

\* the membership predicate of a list
contains(key, id, mediaType) ==
    CASE key = KEYS.WATCHLIST -> isInWatchlist(id, mediaType)
      [] key = KEYS.FAVORITES -> isInFavorites(id, mediaType)
      [] key = KEYS.WATCHED -> isWatched(id, mediaType)

\* the records of a list as a load returns them
load(key) == getItems(key).items

\* this step is a call of the store operation op
Calls(op) == nops' = nops + 1 /\ call'.op = op

\* the records of `items` with the given identity key
Matching(items, id, mediaType) ==
    { n \in 1..Len(items) : items[n].id = id /\ Get(items[n], "media_type") = mediaType }

ToggleLists == {KEYS.WATCHLIST, KEYS.FAVORITES}

----------------------------------------------------------------------------
\* C1: from a medium without entries, after any sequence of add and remove
\* calls with arbitrary and repeated keys, each of the three persisted lists
\* holds at most one record per identity key (id, media_type).
C1_Uniqueness ==
    \A key \in KeyNames :
        LET items == localStorage[key].items IN
        \A m, n \in 1..Len(items) :
            ( /\ items[m].id = items[n].id
              /\ Get(items[m], "media_type") = Get(items[n], "media_type") )
            => m = n

\* a key was added again to a list that holds it next to another record
C1_Witness ==
    \E key \in KeyNames :
        /\ call.op = AddOp(key)
        /\ ret = "false"
        /\ call.medium = "ok"
        /\ Len(localStorage[key].items) = 2
        /\ Matching(localStorage[key].items, call.id, call.media_type) # {}

\* C2: add(L, x) followed at once by add(L, x') with the same identity key,
\* whatever the display values of x', leaves the persisted list as it was
\* after the first call, and the second call returns false.
C2_IdempotentAdd ==
    [][\A key \in KeyNames :
        ( /\ call.op = AddOp(key)
          /\ Calls(AddOp(key))
          /\ call'.id = call.id
          /\ call'.media_type = call.media_type
          /\ call'.medium = call.medium )
        => (ret' = "false" /\ localStorage' = localStorage)]_vars

\* the second add carried other display values than the stored record
C2_Witness ==
    \E key \in ToggleLists :
        /\ call.op = AddOp(key)
        /\ call.medium = "ok"
        /\ ret = "false"
        /\ nops = 2
        /\ Len(localStorage[key].items) = 1
        /\ localStorage[key].items[1].id = call.id
        /\ localStorage[key].items[1].title # Or(call.item.title, call.item.name)

\* C3: removeFromWatchlist / removeFromFavorites with a key that is not in
\* the list does not throw, and a load of the list afterwards returns the
\* same records in the same order as before the call.
C3_RemoveAbsent ==
    [][\A key \in ToggleLists :
        ( /\ Calls(RemoveOp(key))
          /\ ~some(load(key), call'.id, call'.media_type) )
        => (ret' # "TypeError" /\ load(key)' = load(key))]_vars

\* a key that was never added was removed from a list holding another record
C3_Witness ==
    \E key \in ToggleLists :
        /\ call.op = RemoveOp(key)
        /\ ret = "true"
        /\ ~call.found
        /\ Len(localStorage[key].items) = 1
        /\ medium = "ok"

\* the persisted records of a list
persisted(key) == localStorage[key].items

\* record r shows the display values v(title), v(poster_path), v(vote_average)
\* that add captures from item x for the list `key`
ShowsCaptured(key, r, x, v(_)) ==
    /\ Get(r, "title") = v(Or(x.title, x.name))
    /\ key # KEYS.WATCHED =>
        /\ Get(r, "poster_path") = v(x.poster_path)
        /\ Get(r, "vote_average") = v(x.vote_average)

\* a successful add leaves exactly one record with the item's key, showing
\* the captured values as v renders them; and every persisted record stays,
\* with its display values, until a remove of its own key
FirstInsertionKept(v(_)) ==
    /\ \A key \in KeyNames :
        (Calls(AddOp(key)) /\ ret' = "true") =>
            LET recs == localStorage'[key].items
                hits == Matching(recs, call'.id, call'.media_type)
            IN  /\ Cardinality(hits) = 1
                /\ \A n \in hits : ShowsCaptured(key, recs[n], call'.item, v)
    /\ \A key \in KeyNames : \A n \in 1..Len(persisted(key)) :
        LET r == persisted(key)[n]
            recs == localStorage'[key].items
            hits == Matching(recs, r.id, Get(r, "media_type"))
        IN  \/ /\ Calls(RemoveOp(key))
               /\ call'.id = r.id
               /\ call'.media_type = Get(r, "media_type")
            \/ /\ Cardinality(hits) = 1
               /\ \A h \in hits :
                    /\ Get(recs[h], "title") = Get(r, "title")
                    /\ Get(recs[h], "poster_path") = Get(r, "poster_path")
                    /\ Get(recs[h], "vote_average") = Get(r, "vote_average")

\* C4: after a successful add(L, x) of an absent key, a later load of L, also
\* after adds and removes of other keys and later adds of the same key with
\* other display values, yields exactly one record with x's key, and its
\* title, poster_path and vote_average are the values captured at the first
\* insertion.
C4_FirstInsertionKept == [][FirstInsertionKept(LAMBDA x : x)]_vars

\* C5: every add or remove on one list leaves the persisted content of the
\* other two lists, and their membership predicates, unchanged; one item
\* may be in all three lists at once.
C5_CrossListIndependence ==
    [][\A key \in KeyNames :
        (nops' = nops + 1 /\ call'.op \in {AddOp(key), RemoveOp(key)}) =>
            \A other \in KeyNames \ {key} :
                /\ localStorage'[other] = localStorage[other]
                /\ \A k \in IdentityKeys :
                    (k[1] = call'.id /\ k[2] = call'.media_type) =>
                        contains(other, k[1], k[2])' = contains(other, k[1], k[2])]_vars

\* one item is in the watchlist, the favorites and the watched list at once
C5_Witness ==
    \E k \in IdentityKeys :
        /\ isInWatchlist(k[1], k[2]) = "true"
        /\ isInFavorites(k[1], k[2]) = "true"
        /\ isWatched(k[1], k[2]) = "true"

\* C6: with the medium available and writes succeeding, for the watchlist
\* and the favorites: right after add(k) the membership predicate of k
\* returns true, right after remove(k) it returns false, and add(k) then
\* remove(k) from an empty list leave an empty list.
C6_MembershipFollowsMutation ==
    [][\A key \in ToggleLists :
        /\ (medium = "ok" /\ Calls(AddOp(key))) =>
            \A k \in IdentityKeys :
                (k[1] = call'.id /\ k[2] = call'.media_type) =>
                    contains(key, k[1], k[2])' = "true"
        /\ (medium = "ok" /\ Calls(RemoveOp(key))) =>
            \A k \in IdentityKeys :
                (k[1] = call'.id /\ k[2] = call'.media_type) =>
                    contains(key, k[1], k[2])' = "false"
        /\ ( /\ medium = "ok"
             /\ call.op = AddOp(key)
             /\ ret = "true"
             /\ Len(load(key)) = 1
             /\ Calls(RemoveOp(key))
             /\ call'.id = call.id
             /\ call'.media_type = call.media_type ) =>
            load(key)' = <<>>]_vars

\* a key was added to an empty list and removed again; the list is empty
C6_Witness ==
    \E key \in ToggleLists :
        /\ call.op = RemoveOp(key)
        /\ call.medium = "ok"
        /\ medium = "ok"
        /\ ret = "true"
        /\ call.found
        /\ nops = 2
        /\ load(key) = <<>>
        /\ contains(key, call.id, call.media_type) = "false"

----------------------------------------------------------------------------
\* C10: getItems returns an empty sequence, without throwing, when the
\* medium has no entry for the key, when the medium is unavailable, and
\* when the stored text fails to parse as JSON.
C10_LoadDegradesToEmpty ==
    \A key \in KeyNames :
        ( \/ ~isStorageAvailable
          \/ localStorage[key].kind = "absent"
          \/ JSONparse(localStorage[key]).t = "SyntaxError" )
        => getItems(key) = EmptyArray

\* an add loaded a list whose stored text does not parse, found no record in
\* it and could not save: the text is still there
C10_Witness ==
    \E key \in KeyNames :
        /\ localStorage[key].kind = "garbage"
        /\ medium = "ok"
        /\ call.op = AddOp(key)
        /\ call.medium = "quota"
        /\ ret = "false"

----------------------------------------------------------------------------
(* Vocabulary of the search properties *)

Times(log) == [i \in 1..Len(log) |-> log[i].at]

\* the input events of the debounce scenario (ms)
Scenario == <<0, 50, 100, 350>>

\* the input events so far are the first n of the scenario, and the next
\* one is not overdue
InScenario(n) ==
    /\ n = Len(inputLog)
    /\ Times(inputLog) = SubSeq(Scenario, 1, n)
    /\ n < Len(Scenario) => now <= Scenario[n + 1]

\* the maximal groups of input events separated by gaps of at least the wait
Groups(log) ==
    IF log = <<>> THEN 0
    ELSE 1 + Cardinality({ i \in 1..(Len(log) - 1) : log[i + 1].at - log[i].at >= DebounceWait })

\* the executions of handleSearch scheduled by the last input event
LastRuns ==
    { i \in 1..Len(searchLog) : searchLog[i].timer = inputLog[Len(inputLog)].timer }

\* the text of the last input event was searched once, a wait after the event
LastQueryRanOnce ==
    /\ Cardinality(LastRuns) = 1
    /\ \A i \in LastRuns :
        /\ i = Len(searchLog)
        /\ searchLog[i].at = inputLog[Len(inputLog)].at + DebounceWait
        /\ searchLog[i].query = inputValue

\* C7: with input events at t = 0, 50, 100 and 350 ms and no other event,
\* handleSearch is executed exactly once, at t = 650, with the query of the
\* event at t = 350; the events at 0, 50 and 100 cause no execution.
C7_DebounceSettling ==
    \A n \in 0..Len(Scenario) :
        InScenario(n) =>
            /\ Len(searchLog) <= 1
            /\ (n < Len(Scenario) \/ now < Scenario[Len(Scenario)] + 300) => searchLog = <<>>
            /\ (n = Len(Scenario) /\ timers = {}) =>
                /\ Len(searchLog) = 1
                /\ searchLog[1].at = 650
                /\ searchLog[1].query = inputValue
                /\ searchLog[1].timer = inputLog[n].timer

\* the four events happened and the one search ran
C7_Witness ==
    /\ InScenario(Len(Scenario))
    /\ timers = {}
    /\ Len(searchLog) = 1

\* C8: for every finite burst of input events, once input stops the last
\* typed query is eventually executed by handleSearch exactly once, 300 ms
\* after the last event, and the executions never outnumber the maximal
\* groups of events separated by gaps of at least 300 ms.
C8_SettledQueryRunsOnce ==
    /\ [](Len(searchLog) <= Groups(inputLog))
    /\ []((inputLog # <<>> /\ timers = {}) => LastQueryRanOnce)
    /\ [](inputLog # <<>> => Cardinality(LastRuns) <= 1)
    /\ <>[](inputLog = <<>> \/ (timers = {} /\ LastQueryRanOnce))

\* two bursts, each searched once: the second after three events
C8_Witness ==
    /\ Len(inputLog) = 4
    /\ Groups(inputLog) = 2
    /\ Len(searchLog) = 2
    /\ timers = {}
    /\ LastQueryRanOnce

\* C9: at most one debounced search callback is pending at any moment; an
\* input event cancels the callback scheduled before and schedules a new
\* one, a superseded callback never runs, and cancelling changes no other
\* state.
C9_OnePendingCallback ==
    [][ /\ Cardinality(timers') <= 1
        /\ \A t \in timers' : t.id = searchTimeout'
        /\ inputLog' # inputLog =>
            /\ timers \cap timers' = {}
            /\ UNCHANGED <<currentSearchQuery, currentPage, inflight, nreq,
                           currentResults, searchLog, storeVars>>
        /\ searchLog' # searchLog =>
            /\ searchLog'[Len(searchLog')].timer = searchTimeout
            /\ searchLog'[Len(searchLog')].timer = inputLog[Len(inputLog)].timer ]_vars

\* an input event superseded a pending callback, and the later one ran
C9_Witness ==
    /\ Len(inputLog) >= 2
    /\ inputLog[2].at < inputLog[1].at + DebounceWait
    /\ Len(searchLog) = 1
    /\ searchLog[1].timer = inputLog[Len(inputLog)].timer

----------------------------------------------------------------------------
\* the results a store operation gives when it returns
Returned == {"none", "true", "false"}

\* the stored text of the key is a JSON value other than an array
NonConforming(key) == localStorage[key].kind \in {"null", "number", "object"}

\* no call has raised, every load yields an array, every membership
\* predicate answers, and the keys in `faulty` read as the empty list
NeverRaises(faulty) ==
    /\ ret \in Returned
    /\ \A key \in KeyNames :
        /\ getItems(key).t = "array"
        /\ \A k \in IdentityKeys : contains(key, k[1], k[2]) \in {"true", "false"}
        /\ key \in faulty =>
            /\ getItems(key) = EmptyArray
            /\ \A k \in IdentityKeys : contains(key, k[1], k[2]) = "false"

\* C11: in every state of the medium (unavailable, key absent, a JSON array
\* of records, unparseable text, JSON that is no array) every exported store
\* operation returns a value and never raises, and the reads of a list that
\* is not a stored array of records behave as on an empty list.
C11_StoreNeverRaises ==
    NeverRaises({ key \in KeyNames :
                    ~isStorageAvailable \/ localStorage[key].kind # "array" })

\* C12: when the medium is unavailable or rejects the write, an add and a
\* remove return false and the persisted content of all three lists is what
\* it was before the call; when the write succeeds, an add of a new key and
\* a remove return true and the stored content is the full new sequence:
\* the previous records followed by the new one, or the previous records
\* without those of the removed key.
C12_WriteOutcome ==
    [][\A key \in KeyNames :
        LET old == persisted(key)
            new == localStorage'[key].items
        IN  /\ ( /\ nops' = nops + 1
                 /\ call'.op \in {AddOp(key), RemoveOp(key)}
                 /\ call'.medium # "ok" )
               => (ret' = "false" /\ localStorage' = localStorage)
            /\ (Calls(AddOp(key)) /\ call'.medium = "ok" /\ ~call'.found)
               => /\ ret' = "true"
                  /\ Len(new) = Len(old) + 1
                  /\ SubSeq(new, 1, Len(old)) = old
                  /\ new[Len(new)].id = call'.id
                  /\ new[Len(new)].media_type = call'.media_type
                  /\ localStorage'[key].kind = "array"
            /\ (Calls(RemoveOp(key)) /\ call'.medium = "ok")
               => /\ ret' = "true"
                  /\ new = SelectSeq(old, LAMBDA r :
                              ~(r.id = call'.id /\ r.media_type = call'.media_type))
                  /\ localStorage'[key].kind = "array"]_vars

\* a remove of a stored key met a medium that rejects writes: it returned
\* false and the record is still there
C12_Witness ==
    \E key \in ToggleLists :
        /\ call.op = RemoveOp(key)
        /\ call.medium = "quota"
        /\ call.found
        /\ ret = "false"
        /\ Matching(persisted(key), call.id, call.media_type) # {}

----------------------------------------------------------------------------
(* Vocabulary of the toggle properties *)

\* whether button b is shown active, given the buttons of the two pages
Affordance(cards, details, b) ==
    IF b.page = "index"
    THEN IF b.list = KEYS.WATCHLIST THEN cards[b.id].watchlist ELSE cards[b.id].favorite
    ELSE CASE b.list = KEYS.WATCHLIST -> details.watchlist
           [] b.list = KEYS.FAVORITES -> details.favorite
           [] b.list = KEYS.WATCHED -> details.watched

\* this step is a click that called the store
Toggles == nops' = nops + 1 /\ clicked'.page # "none"

\* the clicked button is shown active after the step
ShownActive == Affordance(cardButtons', detailButtons', clicked')

\* the item of the click is in the persisted list of the button after the step
Persisted == Matching(localStorage'[clicked'.list].items, call'.id, call'.media_type) # {}

\* C13: a toggle handler (handleWatchlistToggle, handleFavoriteToggle,
\* toggleWatchlist, toggleFavorite, toggleWatched) flips no button and shows
\* no success notification unless the add or remove it called returned
\* true; so after a toggle the button is shown active only if the item is
\* in the persisted list.
C13_FlipOnlyOnSuccess ==
    [][Toggles =>
        /\ ( \/ cardButtons' # cardButtons
             \/ detailButtons' # detailButtons
             \/ notifications' # notifications ) => ret' = "true"
        /\ ShownActive => Persisted]_vars

\* the click of this step is on the button that was clicked last
SameButton ==
    /\ clicked.page # "none"
    /\ clicked'.page = clicked.page
    /\ clicked'.list = clicked.list
    /\ clicked'.id = clicked.id

\* C14: with storage available and every write succeeding, a toggle of the
\* watchlist or the favorite button on a member removes it and shows the
\* button inactive, a toggle on a non-member adds it and shows the button
\* active, and two consecutive toggles of a button restore the membership
\* and the affordance there were before them.
C14_ToggleTracksMembership ==
    [][(Toggles /\ clicked'.list \in ToggleLists) =>
        /\ call'.found => (~Persisted /\ ~ShownActive)
        /\ ~call'.found => (Persisted /\ ShownActive)
        /\ SameButton =>
            /\ Persisted = call.found
            /\ ShownActive = clicked.was]_vars

\* this step is a click on the watched button of the details page
WatchedClick ==
    /\ clicked'.page = "details"
    /\ clicked'.list = KEYS.WATCHED
    /\ clicked' # clicked \/ nops' # nops

\* C15: the watched list is one-way. No step of the pages removes or
\* changes a persisted record of it; while the medium can be read, a key
\* for which isWatched is true keeps it true; and a click on the watched
\* button of an item that is watched changes neither the store nor the
\* button.
C15_WatchedOneWay ==
    [][ /\ LET old == persisted(KEYS.WATCHED)
               new == localStorage'[KEYS.WATCHED].items
           IN  /\ Len(new) >= Len(old)
               /\ SubSeq(new, 1, Len(old)) = old
        /\ medium' = medium =>
            \A k \in IdentityKeys :
                isWatched(k[1], k[2]) = "true" => isWatched(k[1], k[2])' = "true"
        /\ (WatchedClick /\ isWatched(detailButtons.id, detailButtons.media_type) = "true")
            => UNCHANGED <<localStorage, detailButtons, notifications>> ]_vars

\* an item was marked as watched, another button was used, and the watched
\* button was clicked again: the item is still watched
C15_Witness ==
    /\ clicked.page = "details"
    /\ clicked.list = KEYS.WATCHED
    /\ clicked.was
    /\ detailButtons.watched
    /\ isWatched(detailButtons.id, detailButtons.media_type) = "true"
    /\ call.op # "addToWatched"
    /\ nops = 2

----------------------------------------------------------------------------
\* C16: before any write to a list (its key has no entry in the medium),
\* isInWatchlist, isInFavorites and isWatched return false for every
\* (id, media_type) and do not throw, whatever the other keys hold and
\* however the medium answers.
C16_FirstCallFalse ==
    \A key \in KeyNames :
        localStorage[key].kind = "absent" =>
            \A k \in IdentityKeys : contains(key, k[1], k[2]) = "false"

\* one list was never written while another holds a record
C16_Witness ==
    \E key, other \in KeyNames :
        /\ localStorage[key].kind = "absent"
        /\ medium = "ok"
        /\ Len(persisted(other)) = 1
        /\ contains(other, call.id, call.media_type) = "true"
        /\ contains(key, call.id, call.media_type) = "false"

----------------------------------------------------------------------------
\* this step is the arrival of the response of a catalog fetch
FetchEnds == inflight' # inflight /\ inflight' \subseteq inflight

\* C17: whenever a catalog fetch fails, the page shows the empty result set
\* and also shows an error notification.
C17_FetchFailureNotified ==
    [][(FetchEnds /\ response' = "failed") =>
        /\ emptyState'
        /\ ~currentResults'.any
        /\ notifications' = Append(notifications, "error")]_vars

----------------------------------------------------------------------------
\* the identity key of the call of tab t
TabKey(t) == <<tabs[t].item.id, tabs[t].item.media_type>>

\* C18: with two tabs sharing the medium and every add or remove a load
\* followed by a save, updates are lost: a successful add writes the
\* records its tab loaded followed by its own record, so the records the
\* other tab saved in between are gone; both tabs can add different keys to
\* the same list, both calls returning true, and the list then holds only
\* the key saved last.
C18_LostUpdate ==
    [][\A t \in Tabs :
        ( /\ tabs[t].pc = "loaded"
          /\ tabs'[t].pc = "done"
          /\ tabs[t].op.kind = "add"
          /\ ret' = "true" )
        => LET new == localStorage'[tabs[t].op.key].items
               snapshot == tabs[t].list.items
           IN  /\ Len(new) = Len(snapshot) + 1
               /\ SubSeq(new, 1, Len(snapshot)) = snapshot
               /\ <<new[Len(new)].id, new[Len(new)].media_type>> = TabKey(t)]_vars

\* both tabs added a key of their own to one list and were told true; the
\* list holds one record, that of the later save
C18_Witness ==
    /\ \A t \in Tabs : tabs[t].pc = "done" /\ tabs[t].ret = "true"
    /\ tabs[1].op = tabs[2].op
    /\ tabs[1].op.kind = "add"
    /\ TabKey(1) # TabKey(2)
    /\ Len(persisted(tabs[1].op.key)) = 1
    /\ persisted(tabs[1].op.key)[1].id = call.id
    /\ persisted(tabs[1].op.key)[1].media_type = call.media_type

----------------------------------------------------------------------------
\* C19: two identity keys are equal only when id and media_type both match.
\* An add of a key whose id is in the list under the other media_type
\* returns true and the list then holds both; each membership predicate is
\* true exactly for the keys that have a persisted record; and a remove
\* leaves every record of another key, also one with the same id, in the
\* list.
C19_IdentityKey ==
    /\ [](\A key \in KeyNames :
            medium # "unavailable" =>
                \A k \in IdentityKeys :
                    (contains(key, k[1], k[2]) = "true")
                        <=> (Matching(persisted(key), k[1], k[2]) # {}))
    /\ [][\A key \in KeyNames :
            LET old == persisted(key)
                new == localStorage'[key].items
            IN  /\ ( /\ Calls(AddOp(key))
                     /\ call'.medium = "ok"
                     /\ Matching(old, call'.id, call'.media_type) = {} )
                   => /\ ret' = "true"
                      /\ Len(new) = Len(old) + 1
                /\ (Calls(RemoveOp(key)) /\ call'.medium = "ok") =>
                    \A n \in 1..Len(old) :
                        <<old[n].id, old[n].media_type>> # <<call'.id, call'.media_type>>
                            => \E h \in 1..Len(new) : new[h] = old[n]]_vars

\* a movie and a TV show with one id were both in a list; one of them was
\* removed and the other is still there
C19_Witness ==
    \E key \in ToggleLists :
        /\ call.op = RemoveOp(key)
        /\ call.found
        /\ ret = "true"
        /\ nops = 3
        /\ Len(persisted(key)) = 1
        /\ persisted(key)[1].id = call.id
        /\ persisted(key)[1].media_type # call.media_type
        /\ contains(key, call.id, persisted(key)[1].media_type) = "true"
        /\ contains(key, call.id, call.media_type) = "false"

----------------------------------------------------------------------------
\* the instant a record was inserted at, read back from its date text
InsertedAt(r) ==
    CHOOSE t \in Instants :
        toISOString(t) = (IF "added_date" \in DOMAIN r THEN r.added_date ELSE r.watched_date)

\* the subsequences of a sequence: `new` is `old` with some records left out
RECURSIVE IsSubsequence(_, _)
IsSubsequence(new, old) ==
    IF new = <<>> THEN TRUE
    ELSE IF old = <<>> THEN FALSE
    ELSE IF Head(new) = Head(old) THEN IsSubsequence(Tail(new), Tail(old))
    ELSE IsSubsequence(new, Tail(old))

\* C20: a successful add of an absent key yields the previous sequence with
\* one new record appended at the end, and no other step reorders a list;
\* so the records of a list appear in the order of their latest successful
\* insertion, as their dates show.
C20_InsertionOrder ==
    /\ [][\A key \in KeyNames :
            LET old == persisted(key)
                new == localStorage'[key].items
            IN  /\ (Calls(AddOp(key)) /\ ret' = "true") =>
                    /\ Len(new) = Len(old) + 1
                    /\ \A n \in 1..Len(old) : new[n] = old[n]
                    /\ <<new[Len(new)].id, new[Len(new)].media_type>>
                            = <<call'.id, call'.media_type>>
                    /\ InsertedAt(new[Len(new)]) = clock
                /\ ~(Calls(AddOp(key)) /\ ret' = "true") => IsSubsequence(new, old)]_vars
    /\ [](\A key \in KeyNames : \A m, n \in 1..Len(persisted(key)) :
            m < n => InsertedAt(persisted(key)[m]) <= InsertedAt(persisted(key)[n]))

\* a record was added to a list after another one, at a later instant, and
\* stands behind it
C20_Witness ==
    \E key \in KeyNames :
        /\ call.op = AddOp(key)
        /\ ret = "true"
        /\ Len(persisted(key)) = 2
        /\ InsertedAt(persisted(key)[1]) < InsertedAt(persisted(key)[2])
        /\ persisted(key)[2].id = call.id
        /\ persisted(key)[2].media_type = call.media_type

----------------------------------------------------------------------------
\* the identity key of a persisted record
KeyOf(r) == <<r.id, Get(r, "media_type")>>

\* C21: a remove deletes every record of the list with the given identity
\* key and nothing else: the records of other keys remain, with all their
\* fields (the insertion date too) and in their relative order; and no add
\* modifies a record that is already stored.
C21_RemoveExactlyTheKey ==
    [][\A key \in KeyNames :
        LET old == persisted(key)
            new == localStorage'[key].items
            others == { n \in 1..Len(old) : KeyOf(old[n]) # <<call'.id, call'.media_type>> }
        IN  /\ (Calls(RemoveOp(key)) /\ ret' = "true") =>
                /\ \A h \in 1..Len(new) : KeyOf(new[h]) # <<call'.id, call'.media_type>>
                /\ Len(new) = Cardinality(others)
                /\ \A n \in others : \E h \in 1..Len(new) : new[h] = old[n]
                /\ IsSubsequence(new, old)
            /\ Calls(AddOp(key)) =>
                /\ Len(new) >= Len(old)
                /\ \A n \in 1..Len(old) : new[n] = old[n]]_vars

\* of two records inserted at different instants the earlier one was
\* removed; the later one is left, with the date of its insertion
C21_Witness ==
    \E key \in ToggleLists :
        /\ call.op = RemoveOp(key)
        /\ call.found
        /\ ret = "true"
        /\ nops = 3
        /\ clock = 1
        /\ Len(persisted(key)) = 1
        /\ KeyOf(persisted(key)[1]) # <<call.id, call.media_type>>
        /\ InsertedAt(persisted(key)[1]) = 1

----------------------------------------------------------------------------
\* C27: the result of a remove tells only whether the write succeeded: with
\* the medium accepting writes it is true and the entry of the list is
\* rewritten as an array, whether a record of the key was there or not;
\* otherwise it is false.  An add returns false both for a key that is
\* already stored and for a write that failed, and true in no such case.
C27_RemoveResultIsWriteResult ==
    [][\A key \in KeyNames :
        /\ Calls(RemoveOp(key)) =>
            /\ ret' = (IF call'.medium = "ok" THEN "true" ELSE "false")
            /\ ret' = "true" =>
                /\ localStorage'[key].kind = "array"
                /\ Matching(localStorage'[key].items, call'.id, call'.media_type) = {}
            /\ ret' = "false" => localStorage' = localStorage
        /\ Calls(AddOp(key)) =>
            ret' = (IF call'.found \/ call'.medium # "ok" THEN "false" ELSE "true")]_vars

\* the first call is a remove on a list that was never written: it
\* returned true and the entry now holds the text of an empty array
C27_Witness ==
    \E key \in ToggleLists :
        /\ nops = 1
        /\ call.op = RemoveOp(key)
        /\ ~call.found
        /\ ret = "true"
        /\ localStorage[key].kind = "array"
        /\ persisted(key) = <<>>

----------------------------------------------------------------------------
\* C26: on a list whose stored text does not parse, a load returns no
\* records and the predicates are false, and an add or a remove treats the
\* list as empty and overwrites the text: after a successful add the list
\* holds exactly the one new record, after a successful remove it is the
\* empty sequence.  Nothing but an add or a remove writes: the text stays
\* as it is over every other step.
C26_UnparseableOverwritten ==
    [][\A key \in KeyNames :
        LET new == localStorage'[key] IN
        /\ localStorage[key].kind = "garbage" =>
            /\ load(key) = <<>>
            /\ \A item \in Items : contains(key, item.id, item.media_type) = "false"
            /\ (Calls(AddOp(key)) /\ ret' = "true") =>
                /\ new.kind = "array"
                /\ Len(new.items) = 1
                /\ new.items[1].id = JSONvalue(call'.id)
                /\ Get(new.items[1], "media_type") = call'.media_type
            /\ Calls(AddOp(key)) => (ret' = "true" <=> call'.medium = "ok")
            /\ (Calls(RemoveOp(key)) /\ ret' = "true") => new = JSONstringify(<<>>)
            /\ Calls(RemoveOp(key)) => (ret' = "true" <=> call'.medium = "ok")
        /\ new # localStorage[key] =>
            (Calls(AddOp(key)) \/ Calls(RemoveOp(key))) /\ ret' = "true"]_vars

\* the first call was a remove on the list that held the unparseable text
\* (no list holds it any more): it returned true and the list is now the
\* empty array
C26_Witness ==
    \E key \in ToggleLists :
        /\ nops = 1
        /\ call.op = RemoveOp(key)
        /\ ret = "true"
        /\ localStorage[key] = JSONstringify(<<>>)
        /\ \A k \in KeyNames : localStorage[k].kind # "garbage"

----------------------------------------------------------------------------
\* C25: with two tabs interleaving their loads and saves, no persisted list
\* and no list a tab has loaded ever holds two records of one identity key.
C25_TabsKeepUniqueness ==
    \A key \in KeyNames, k \in IdentityKeys :
        /\ Cardinality(Matching(persisted(key), k[1], k[2])) <= 1
        /\ \A t \in Tabs : Cardinality(Matching(tabs[t].list.items, k[1], k[2])) <= 1

\* both tabs loaded the empty list and then added the same key; both calls
\* returned true and the list holds one record of the key
C25_Witness ==
    /\ \A t \in Tabs : tabs[t].pc = "done" /\ tabs[t].ret = "true"
    /\ tabs[1].op = tabs[2].op
    /\ tabs[1].op.kind = "add"
    /\ TabKey(1) = TabKey(2)
    /\ Cardinality(Matching(persisted(tabs[1].op.key), call.id, call.media_type)) = 1

----------------------------------------------------------------------------
\* C22: after a click on the watchlist or the favorite button of a card
\* has added the item of the card to the list, a card created again for
\* the same catalog item shows that button active; also for a catalog item
\* without media_type, whose card carries 'movie'.
C22_ReadAfterWrite ==
    ( /\ clicked.page = "index"
      /\ clicked.list \in ToggleLists
      /\ call.op = AddOp(clicked.list)
      /\ ret = "true" )
    => LET card == createCard(CatalogItem(clicked.id))
       IN  IF clicked.list = KEYS.WATCHLIST THEN card.watchlist ELSE card.favorite

----------------------------------------------------------------------------
(* Vocabulary of the properties of the main page *)

\* this step is an execution of handleSearch
Executes == Len(searchLog') = Len(searchLog) + 1

\* the execution of this step
Executed == searchLog'[Len(searchLog')]

\* C23: the callback of the debounce timer searches for the text the
\* search box holds when it runs; and while the box is empty, as it is from
\* a click on the clear button, a genre chip or a content-type button
\* until the next input event, currentSearchQuery is empty.
C23_CallbackRunsCurrentInput ==
    /\ [](inputValue = <<>> => currentSearchQuery = <<>>)
    /\ [][(Executes /\ Executed.timer # 0) => Executed.query = inputValue]_vars

\* C24: when no catalog load is in flight any more, currentResults and the
\* grid are those of the load issued last.
C24_LastIssuedLoadShown ==
    (inflight = {} /\ nreq > 0) => currentResults.n = nreq

\* C28: the Enter key or the search button runs handleSearch at once on
\* the text of the search box and leaves no callback pending; a callback
\* that runs after such an execution comes from an input event that was
\* not before it.
C28_SubmitRunsOnce ==
    /\ [](\A i, j \in 1..Len(searchLog) :
            (i < j /\ searchLog[i].timer = 0 /\ searchLog[j].timer # 0) =>
                \E k \in 1..Len(inputLog) :
                    /\ inputLog[k].timer = searchLog[j].timer
                    /\ inputLog[k].at >= searchLog[i].at)
    /\ [][(Executes /\ Executed.timer = 0) =>
            /\ timers' = {}
            /\ Executed.query = inputValue
            /\ Executed.at = now
            /\ currentSearchQuery' = trim(inputValue)
            /\ nreq' = nreq + 1]_vars

\* a query was typed and submitted 150 ms later; the 300 ms since the
\* input event have passed, and the query was executed once
C28_Witness ==
    /\ Len(inputLog) = 1
    /\ Len(searchLog) = 1
    /\ searchLog[1].timer = 0
    /\ searchLog[1].query = inputValue
    /\ searchLog[1].at > inputLog[1].at
    /\ searchLog[1].at < inputLog[1].at + DebounceWait
    /\ now >= inputLog[1].at + DebounceWait
    /\ timers = {}

====
